---- MODULE Spec2Model ----
(***************************************************************************)
(* State-machine model of OpenClawBackend                                  *)
(* (packages/happy-cli/src/openclaw/OpenClawBackend.ts): the connection    *)
(* manager (connect, the three socket listeners, sendConnect, sendRaw,     *)
(* rpc, handleGatewayMessage, dispose), the event translator               *)
(* (handleGatewayEvent, emit) and the session facade that drives them      *)
(* (startSession, sendPrompt, onMessage, offMessage).                      *)
(*                                                                         *)
(* One step of the model is one turn of the JavaScript event loop: a host  *)
(* call, a socket event dispatched to its listener, a timer callback, or   *)
(* the continuation of an awaited promise (a microtask, which runs before  *)
(* any further socket event, timer or host call).                          *)
(*                                                                         *)
(* The gateway is a peer that follows the wire protocol: it may send a     *)
(* challenge on any open socket at any time, it answers only requests it   *)
(* received on that socket (any number of times, in any order, however     *)
(* late), and it may start closing or drop any socket at any time.         *)
(***************************************************************************)
EXTENDS Integers, Sequences, FiniteSets, TLC

\* ---- bounds of the model -------------------------------------------------
MaxSock == 2        \* transports opened in one run of Spec
MaxRpc == 2         \* rpc() calls in one run of SpecRpc and SpecPrompts
MaxHandlers == 1    \* length of the handlers array
MaxPolls == 2       \* timeout of waitForResponseComplete, in 100 ms sleeps
MaxListeners == 2   \* length of the handlers array where delivery order is examined
MaxSess == 2        \* startSession() calls that run to their continuation
OneSock == 1        \* transports opened in one run of every other specification
FewRpc == 1         \* rpc() calls in one run of SpecClose, SpecFrames, SpecSession
MaxDeltas == 2      \* text chunks held by responseBuffer

\* ---- WebSocket readyState values (OpenClawSocket.readyState) --------------
WS_CONNECTING == 0
WS_OPEN == 1
WS_CLOSING == 2     \* not open, 'close' event not dispatched yet
WS_CLOSED == 3      \* 'close' event dispatched

\* ---- inputs ----------------------------------------------------------------
Nonces == {"", "n1", "n2"}          \* payload.nonce of a challenge ("" = absent)
Reasons == {"", "denied"}           \* error.message of an ok:false response
ErrorTexts == {"", "ECONNRESET"}    \* event.message of a transport error
CloseCodes == {1000, 1006}          \* event.code of a close notification
Handlers == {"h1", "h2"}            \* host callbacks that return
Callbacks == {"h1", "hThrow", "hOff"} \* host callbacks: returns, throws, unregisters itself
Tokens == {"", "tok"}               \* resolved config.token
Devices == {"none", "dev1"}         \* loadDeviceIdentity(): null or a deviceId
Prompts == {"hi", "bye"}            \* prompt texts
SessionKeys == {"", "work"}         \* config.sessionKey ("" = absent)
PermissionIds == {"perm1"}          \* requestId of respondToPermission
FileTokens == {"", "ftok"}          \* gateway.auth.token of openclaw.json ("" = none)
EnvTokens == {"", "etok"}           \* OPENCLAW_GATEWAY_TOKEN ("" = unset)
Deltas == {"Hi", " there"}          \* text chunks of a streamed answer

\* a frame as the socket delivers it: text that is not JSON, the JSON text
\* 'null', or the JSON text of an object
Garbage == [kind |-> "garbage"]
JsonNull == [kind |-> "null"]
Json(msg) == [kind |-> "json", msg |-> msg]

\* a JSON object is a function from its field names; {} is the empty one
EmptyObj == [k \in {} |-> ""]

\* event frames of the gateway
AgentFrame(stream, data) ==
    [type |-> "event", event |-> "agent", payload |-> [stream |-> stream, data |-> data]]

ChatFrame(payload) == [type |-> "event", event |-> "chat", payload |-> payload]

ChatMessage(text) ==
    [role |-> "assistant", content |-> <<[type |-> "text", text |-> text]>>]

\* text deltas: stream 'assistant' with data.delta, chat with state 'delta'
AssistantDelta(d) == AgentFrame("assistant", [delta |-> d])
ChatDelta(d) == ChatFrame([state |-> "delta", message |-> ChatMessage(d)])

\* stream 'assistant' carrying the text so far and the delta
AssistantText(text, d) == AgentFrame("assistant", [text |-> text, delta |-> d])

\* turn lifecycle: stream 'lifecycle' with data.phase, chat with state
LifecycleStart == AgentFrame("lifecycle", [phase |-> "start"])
LifecycleEnd == AgentFrame("lifecycle", [phase |-> "end"])
LifecycleError(m) == AgentFrame("lifecycle", [phase |-> "error", error |-> m])
ChatFinal == ChatFrame([state |-> "final", message |-> ChatMessage("Hi")])
ChatError(m) == ChatFrame([state |-> "error", errorMessage |-> m])

\* frames discriminated by a type field
TypedFrames ==
    {[type |-> "event", event |-> "agent", payload |-> [type |-> "turn.start"]],
     [type |-> "event", event |-> "agent", payload |-> [data |-> [type |-> "done"]]],
     [type |-> "event", event |-> "agent",
      payload |-> [data |-> [type |-> "error", message |-> "boom"]]],
     ChatFrame([text |-> "Hi"]),
     ChatFrame([type |-> "turn.end"])}

StreamFrames ==
    {AssistantDelta(d) : d \in Deltas} \cup {ChatDelta(d) : d \in Deltas}
        \cup {AssistantText("Hi", "Hi"), AssistantText("Hi there", " there")}
        \cup {LifecycleStart, LifecycleEnd, LifecycleError("boom"), ChatFinal,
              ChatError("boom")}

\* a payload that would change the streaming state if it were translated
BusyPayload == [text |-> "Hi", type |-> "done", data |-> [type |-> "turn.start"]]

NoisyFrames ==
    {[type |-> "event", event |-> "health", payload |-> BusyPayload],
     [type |-> "event", event |-> "tick"],
     [type |-> "event", event |-> "presence", payload |-> EmptyObj],
     [type |-> "event", event |-> "heartbeat", payload |-> BusyPayload]}

UnknownFrames ==
    {[type |-> "event", event |-> "sessions.changed", payload |-> BusyPayload],
     [type |-> "event", event |-> "shutdown"]}

\* malformed frames that no branch of the listener acts on
DiscardedFrames ==
    {Garbage, JsonNull, Json([type |-> "bogus"]), Json(EmptyObj),
     Json([type |-> "res", ok |-> TRUE]),
     Json([type |-> "event", event |-> "agent"]),
     Json([type |-> "event", event |-> "chat"])}

\* frames lacking fields that a branch of the listener acts on all the same
NamelessEvent == Json([type |-> "event"])
BareApproval == Json([type |-> "event", event |-> "exec.approval.requested"])
BareFailure == Json([type |-> "res", ok |-> FALSE])

\* ---- error texts of the code ------------------------------------------------
ConnectTimeoutErr == "OpenClaw Gateway connection timeout"
ConnectRejectedErr == "Connect rejected"
WebSocketErr == "WebSocket error"
RpcErr == "RPC error"
RpcTimeoutErr == "RPC timeout"
SendErr == "WebSocket not connected"
NotConnectedErr == "Not connected to OpenClaw Gateway"

VARIABLES
    ws,                \* this.ws: index of the current socket, 0 = null
    sock,              \* every socket created so far, with the closure of its connect()
                       \* and (rx) the frame GwFrame gave its message listener, if
                       \* that was the last frame any listener was given that way
    connected,         \* this.connected
    connectNonce,      \* this.connectNonce ("" = null or empty)
    pendingRequests,   \* this.pendingRequests: correlation id -> the rpc() call it settles
    rpcs,              \* every rpc() call so far: its id, its promise and its timer
    handlers,          \* this.handlers
    responseBuffer,    \* this.responseBuffer, as the sequence of appended deltas
    isResponding,      \* this.isResponding
    currentSessionId,  \* this.currentSessionId (0 = null), ids are allocated in order
    device,            \* this.device
    token,             \* this.config.token
    sessionKey,        \* this.config.sessionKey
    tokenSources,      \* what the constructor resolved the token from
    waiter,            \* the waitForResponseComplete() call in progress, if any
    micro,             \* continuations of awaited promises that are ready to run
    delivered,         \* handler invocations made by the last step, in order
    ret                \* outcome of the last host call ("" = none or still pending)

vars == <<ws, sock, connected, connectNonce, pendingRequests, rpcs, handlers,
          responseBuffer, isResponding, currentSessionId, device, token, sessionKey,
          tokenSources, waiter, micro, delivered, ret>>

\* no connect request has been written to the socket
NoReq == [dev |-> FALSE, nonce |-> "-", payload |-> <<>>, auth |-> "-", via |-> 0]

Socks == 1..Len(sock)
Calls == 1..Len(rpcs)

\* a || b of JavaScript on strings
OrDefault(text, dflt) == IF text = "" THEN dflt ELSE text

\* Array.prototype.join
RECURSIVE Join(_, _)
Join(parts, sep) ==
    IF Len(parts) = 0 THEN <<>>
    ELSE IF Len(parts) = 1 THEN <<parts[1]>>
    ELSE <<parts[1], sep>> \o Join(Tail(parts), sep)

buildDeviceAuthPayload_NonceBeforeToken(deviceId, clientId, clientMode, role, scopes, signedAtMs, tok, nonce) ==
    Join(<<"v2", deviceId, clientId, clientMode, role, Join(scopes, ","),
           signedAtMs, nonce, tok>>, "|")

buildDeviceAuthPayload(deviceId, clientId, clientMode, role, scopes, signedAtMs, tok, nonce) ==
    Join(<<"v2", deviceId, clientId, clientMode, role, Join(scopes, ","),
           signedAtMs, tok, nonce>>, "|")

\* ---- Map ----------------------------------------------------------------------
EmptyMap == [k \in {} |-> 0]
MapSet(m, key, val) == [k \in DOMAIN m \cup {key} |-> IF k = key THEN val ELSE m[k]]
MapDelete(m, key) == [k \in DOMAIN m \ {key} |-> m[k]]

\* ---- promises ---------------------------------------------------------------
\* the promise of connect(): settling an already settled promise does nothing
RejectConnect(sk, reason) ==
    IF sk.p = "pending" THEN [sk EXCEPT !.p = "rejected", !.reason = reason] ELSE sk

ResolveConnect(sk) ==
    IF sk.p = "pending" THEN [sk EXCEPT !.p = "resolved"] ELSE sk

\* the promise of rpc(): calls counts the invocations of its resolve and reject,
\* by and rid record what made the first of them
SettleRpc(r, outcome, reason, by, rid) ==
    IF r.p = "pending"
    THEN [r EXCEPT !.p = outcome, !.reason = reason, !.by = by, !.rid = rid,
                   !.calls = r.calls + 1]
    ELSE [r EXCEPT !.calls = r.calls + 1]

\* ---- emit -------------------------------------------------------------------
StatusMsg(status, detail) == [type |-> "status", status |-> status, detail |-> detail]

\* handlers.splice(handlers.indexOf(h), 1)
RECURSIVE RemoveFirst(_, _)
RemoveFirst(hs, h) ==
    IF hs = <<>> THEN <<>>
    ELSE IF Head(hs) = h THEN Tail(hs)
    ELSE <<Head(hs)>> \o RemoveFirst(Tail(hs), h)

\* what a host callback does when called: "hThrow" throws, "hOff" calls
\* offMessage(itself) and returns, the others return
HandlerCall(h) == IF h = "hThrow" THEN "threw" ELSE "returned"

\* this.handlers once handler h has run
HandlerEffect(hs, h) == IF h = "hOff" THEN RemoveFirst(hs, h) ELSE hs

\* the try/catch around handler(msg): log and go on
CatchHandler(outcome) == "returned"

\* `for (const handler of this.handlers)` from index i on: the array iterator
\* reads the live array, its length included, at every step
RECURSIVE DeliverOne(_, _, _)
DeliverOne(hs, i, msg) ==
    IF i > Len(hs) THEN [hs |-> hs, out |-> <<>>]
    ELSE LET h == hs[i]
             after == HandlerEffect(hs, h)
             rest == IF CatchHandler(HandlerCall(h)) = "threw"
                     THEN [hs |-> after, out |-> <<>>]
                     ELSE DeliverOne(after, i + 1, msg)
         IN [hs |-> rest.hs, out |-> <<[h |-> h, msg |-> msg]>> \o rest.out]

\* emit(msg) for each msg of msgs in turn
RECURSIVE EmitAll(_, _)
EmitAll(hs, msgs) ==
    IF msgs = <<>> THEN [hs |-> hs, out |-> <<>>]
    ELSE LET one == DeliverOne(hs, 1, Head(msgs))
             rest == EmitAll(one.hs, Tail(msgs))
         IN [hs |-> rest.hs, out |-> one.out \o rest.out]

\* the handler invocations the emits make, in order
Emit(hs, msgs) == EmitAll(hs, msgs).out

\* this.handlers after the emits
AfterEmit(hs, msgs) == EmitAll(hs, msgs).hs

\* ---- sendRaw ----------------------------------------------------------------
\* sendRaw throws unless this.ws is set and OPEN
CanSend == ws # 0 /\ sock[ws].rs = WS_OPEN

\* ---- connect() --------------------------------------------------------------
\* the early return of connect()
AlreadyConnected_FlagOnly == connected

AlreadyConnected == connected /\ ws # 0 /\ sock[ws].rs = WS_OPEN

\* the message listener has been given no frame of the kinds GwFrame handles
NoFrame == [raw |-> [kind |-> "none"], exit |-> "returned"]

NewSocket(prompt) ==
    [rs |-> WS_CONNECTING, chal |-> FALSE, creq |-> NoReq, p |-> "pending",
     reason |-> "", timer |-> TRUE, prompt |-> prompt, rx |-> NoFrame]

\* startSession calls that have not reached their continuation yet
Awaiting == Cardinality({s \in Socks : sock[s].p = "pending"}) + Len(micro)

\* startSession(initialPrompt?) up to its await of connect()
StartSession(prompt) ==
    /\ micro = <<>>
    /\ currentSessionId + Awaiting < MaxSess
    /\ IF AlreadyConnected
       THEN /\ micro' = Append(micro, [prompt |-> prompt, via |-> 0])
            /\ UNCHANGED <<ws, sock>>
       ELSE /\ sock' = Append(sock, NewSocket(prompt))
            /\ ws' = Len(sock) + 1
            /\ UNCHANGED micro
    /\ delivered' = <<>>
    /\ ret' = ""
    /\ UNCHANGED <<connected, connectNonce, pendingRequests, rpcs, handlers,
                   responseBuffer, isResponding, currentSessionId, device, token, sessionKey, tokenSources, waiter>>

\* ---- rpc() ------------------------------------------------------------------
\* the promise executor of rpc(): arm the deadline, register, sendRaw; a throw
\* of sendRaw rejects the promise and leaves the entry and the timer in place
NewRpc(id, method, params) ==
    IF CanSend
    THEN [id |-> id, method |-> method, params |-> params, p |-> "pending",
          reason |-> "", by |-> "", rid |-> 0, calls |-> 0, timer |-> TRUE,
          sock |-> ws]
    ELSE [id |-> id, method |-> method, params |-> params, p |-> "rejected",
          reason |-> SendErr, by |-> "send", rid |-> 0, calls |-> 1, timer |-> TRUE,
          sock |-> 0]

\* rpc(method): randomUUID() is a fresh id, here the next unused number
Rpc(method, params) ==
    /\ rpcs' = Append(rpcs, NewRpc(Len(rpcs) + 1, method, params))
    /\ pendingRequests' = MapSet(pendingRequests, Len(rpcs) + 1, Len(rpcs) + 1)

\* idempotencyKey: randomUUID(), a value no earlier call returned; here the
\* number of the call
IdempotencyKey_PerSession == currentSessionId

IdempotencyKey == Len(rpcs) + 1

\* the params object of chat.send
ChatSendParams(prompt) ==
    [sessionKey |-> sessionKey, message |-> prompt, idempotencyKey |-> IdempotencyKey]

\* sendPrompt body once the connected check has passed
PromptEffects(prompt) ==
    /\ responseBuffer' = <<>>
    /\ isResponding' = TRUE
    /\ Rpc("chat.send", ChatSendParams(prompt))

\* the check that opens sendPrompt: `if (!this.connected) throw`
PromptRefused_NoSocket == ws = 0

PromptRefused == ~connected

SendPrompt(prompt) ==
    /\ micro = <<>>
    /\ IF PromptRefused
       THEN /\ ret' = NotConnectedErr
            /\ delivered' = <<>>
            /\ UNCHANGED <<responseBuffer, isResponding, rpcs, pendingRequests, handlers>>
       ELSE /\ PromptEffects(prompt)
            /\ delivered' = Emit(handlers, <<StatusMsg("running", <<>>)>>)
            /\ handlers' = AfterEmit(handlers, <<StatusMsg("running", <<>>)>>)
            /\ ret' = IF CanSend THEN "" ELSE SendErr
    /\ UNCHANGED <<ws, sock, connected, connectNonce, currentSessionId,
                   device, token, sessionKey, tokenSources, waiter, micro>>

\* the two status messages startSession emits once connect() has resolved
SessionStatuses_IdleFirst == <<StatusMsg("idle", <<>>), StatusMsg("starting", <<>>)>>

SessionStatuses == <<StatusMsg("starting", <<>>), StatusMsg("idle", <<>>)>>

\* startSession after its await of connect() resolved
StartSessionCont ==
    /\ micro # <<>>
    /\ "prompt" \in DOMAIN Head(micro)
    /\ micro' = Tail(micro)
    /\ currentSessionId' = currentSessionId + 1
    /\ IF Head(micro).prompt = ""
       THEN /\ delivered' = Emit(handlers, SessionStatuses)
            /\ handlers' = AfterEmit(handlers, SessionStatuses)
            /\ ret' = ""
            /\ UNCHANGED <<responseBuffer, isResponding, rpcs, pendingRequests>>
       ELSE IF PromptRefused
       THEN /\ delivered' = Emit(handlers, SessionStatuses)
            /\ handlers' = AfterEmit(handlers, SessionStatuses)
            /\ ret' = NotConnectedErr
            /\ UNCHANGED <<responseBuffer, isResponding, rpcs, pendingRequests>>
       ELSE /\ PromptEffects(Head(micro).prompt)
            /\ delivered' = Emit(handlers,
                                 Append(SessionStatuses, StatusMsg("running", <<>>)))
            /\ handlers' = AfterEmit(handlers,
                                     Append(SessionStatuses, StatusMsg("running", <<>>)))
            /\ ret' = IF CanSend THEN "" ELSE SendErr
    /\ UNCHANGED <<ws, sock, connected, connectNonce, device, token, sessionKey,
                   tokenSources, waiter>>

\* the timer callback of rpc(): what it does to the map
DeadlineMap_KeepsEntry(m, id) == m

DeadlineMap(m, id) == MapDelete(m, id)

\* the callers that do something after their `await this.rpc(...)`: cancel() and
\* respondToPermission(); sendPrompt() only returns or throws
Continues(r) == r.method \in {"chat.abort", "exec.approval.resolve"}

\* the microtask queue once rpc() call c is settled: the continuation of its
\* caller is queued if the promise was still pending
Resume(c) ==
    IF rpcs[c].p = "pending" /\ Continues(rpcs[c])
    THEN Append(micro, [rpc |-> c])
    ELSE micro

\* the 60 s deadline of rpc() call c
RpcTimeout(c) ==
    /\ micro = <<>>
    /\ c \in Calls
    /\ rpcs[c].timer
    /\ micro' = Resume(c)
    /\ pendingRequests' = DeadlineMap(pendingRequests, rpcs[c].id)
    /\ rpcs' = [rpcs EXCEPT ![c] =
                   [SettleRpc(@, "rejected", RpcTimeoutErr, "deadline", 0)
                    EXCEPT !.timer = FALSE]]
    /\ delivered' = <<>>
    /\ ret' = ""
    /\ UNCHANGED <<ws, sock, connected, connectNonce, handlers, responseBuffer,
                   isResponding, currentSessionId, device, token, sessionKey,
                   tokenSources, waiter>>

\* ---- cancel() ----------------------------------------------------------------
\* cancel(sessionId) up to its await of rpc('chat.abort'); a throw of sendRaw has
\* rejected the promise already, so the continuation is queued at once
Cancel ==
    /\ micro = <<>>
    /\ IF ~connected
       THEN UNCHANGED <<rpcs, pendingRequests, micro>>
       ELSE /\ Rpc("chat.abort", [sessionKey |-> sessionKey])
            /\ micro' = IF CanSend THEN micro ELSE Append(micro, [rpc |-> Len(rpcs) + 1])
    /\ delivered' = <<>>
    /\ ret' = ""
    /\ UNCHANGED <<ws, sock, connected, connectNonce, handlers, responseBuffer,
                   isResponding, currentSessionId, device, token, sessionKey,
                   tokenSources, waiter>>

\* cancel() after its await: the catch swallows a rejection
CancelCont ==
    /\ micro # <<>>
    /\ "rpc" \in DOMAIN Head(micro)
    /\ rpcs[Head(micro).rpc].method = "chat.abort"
    /\ micro' = Tail(micro)
    /\ isResponding' = FALSE
    /\ delivered' = Emit(handlers, <<StatusMsg("idle", <<>>)>>)
    /\ handlers' = AfterEmit(handlers, <<StatusMsg("idle", <<>>)>>)
    /\ ret' = ""
    /\ UNCHANGED <<ws, sock, connected, connectNonce, pendingRequests, rpcs,
                   responseBuffer, currentSessionId, device, token, sessionKey,
                   tokenSources, waiter>>

\* ---- respondToPermission() ---------------------------------------------------
PermissionResponse(requestId, approved) ==
    [type |-> "permission-response", id |-> requestId, approved |-> approved]

\* respondToPermission(requestId, approved) up to its await of
\* rpc('exec.approval.resolve')
RespondToPermission(requestId, approved) ==
    /\ micro = <<>>
    /\ IF ~connected
       THEN UNCHANGED <<rpcs, pendingRequests, micro>>
       ELSE /\ Rpc("exec.approval.resolve", [id |-> requestId, approved |-> approved])
            /\ micro' = IF CanSend THEN micro ELSE Append(micro, [rpc |-> Len(rpcs) + 1])
    /\ delivered' = <<>>
    /\ ret' = ""
    /\ UNCHANGED <<ws, sock, connected, connectNonce, handlers, responseBuffer,
                   isResponding, currentSessionId, device, token, sessionKey,
                   tokenSources, waiter>>

\* respondToPermission() after its await: the catch swallows a rejection
PermissionCont ==
    /\ micro # <<>>
    /\ "rpc" \in DOMAIN Head(micro)
    /\ rpcs[Head(micro).rpc].method = "exec.approval.resolve"
    /\ micro' = Tail(micro)
    /\ LET msg == PermissionResponse(rpcs[Head(micro).rpc].params.id,
                                     rpcs[Head(micro).rpc].params.approved)
       IN /\ delivered' = Emit(handlers, <<msg>>)
          /\ handlers' = AfterEmit(handlers, <<msg>>)
    /\ ret' = ""
    /\ UNCHANGED <<ws, sock, connected, connectNonce, pendingRequests, rpcs,
                   responseBuffer, isResponding, currentSessionId, device, token,
                   sessionKey, tokenSources, waiter>>

\* ---- the socket and its listeners -------------------------------------------
SockOpen(s) ==
    /\ micro = <<>>
    /\ s \in Socks
    /\ sock[s].rs = WS_CONNECTING
    /\ sock' = [sock EXCEPT ![s].rs = WS_OPEN]
    /\ delivered' = <<>>
    /\ ret' = ""
    /\ UNCHANGED <<ws, connected, connectNonce, pendingRequests, rpcs, handlers,
                   responseBuffer, isResponding, currentSessionId, device, token, sessionKey, tokenSources, waiter, micro>>

\* the peer starts the closing handshake: readyState leaves OPEN before 'close'
SockClosing(s) ==
    /\ micro = <<>>
    /\ s \in Socks
    /\ sock[s].rs = WS_OPEN
    /\ sock' = [sock EXCEPT ![s].rs = WS_CLOSING]
    /\ delivered' = <<>>
    /\ ret' = ""
    /\ UNCHANGED <<ws, connected, connectNonce, pendingRequests, rpcs, handlers,
                   responseBuffer, isResponding, currentSessionId, device, token, sessionKey, tokenSources, waiter, micro>>

\* sendConnect() with this.connectNonce = nonce: the connect request handed to
\* sendRaw; via is the socket whose listener received the challenge
ConnectRequest(nonce, via) ==
    LET signed == device # "none" /\ nonce # ""
    IN [dev |-> signed,
        nonce |-> IF signed THEN nonce ELSE "-",
        payload |-> IF signed
                    THEN buildDeviceAuthPayload(device, "cli", "cli", "operator",
                             <<"operator.read", "operator.write">>, "now", token, nonce)
                    ELSE <<>>,
        auth |-> IF token # "" THEN token ELSE "-",
        via |-> via]

\* this.connectNonce = payload.nonce || ''
ChallengeNonce(old, nonce) == nonce

\* message listener, connect.challenge branch
GwChallenge(s, nonce) ==
    /\ micro = <<>>
    /\ s \in Socks
    /\ sock[s].rs = WS_OPEN
    /\ connectNonce' = ChallengeNonce(connectNonce, nonce)
    /\ sock' = IF CanSend
               THEN [[sock EXCEPT ![s].chal = TRUE]
                        EXCEPT ![ws].creq = ConnectRequest(connectNonce', s)]
               ELSE [sock EXCEPT ![s].chal = TRUE]
    /\ delivered' = <<>>
    /\ ret' = ""
    /\ UNCHANGED <<ws, connected, pendingRequests, rpcs, handlers, responseBuffer,
                   isResponding, currentSessionId, device, token, sessionKey, tokenSources, waiter, micro>>

\* message listener, hello-ok branch; the gateway answers a connect request
GwHelloOk(s) ==
    /\ micro = <<>>
    /\ s \in Socks
    /\ sock[s].rs = WS_OPEN
    /\ sock[s].creq # NoReq
    /\ connected' = TRUE
    /\ sock' = [sock EXCEPT ![s] = [ResolveConnect(@) EXCEPT !.timer = FALSE]]
    /\ micro' = IF sock[s].p = "pending"
                THEN Append(micro, [prompt |-> sock[s].prompt, via |-> s])
                ELSE micro
    /\ delivered' = <<>>
    /\ ret' = ""
    /\ UNCHANGED <<ws, connectNonce, pendingRequests, rpcs, handlers, responseBuffer,
                   isResponding, currentSessionId, device, token, sessionKey, tokenSources, waiter>>

\* reason handed to reject() when the connect request is answered ok:false
ConnectRejectReason_Generic(reason) == ConnectRejectedErr

ConnectRejectReason(reason) == OrDefault(reason, ConnectRejectedErr)

\* message listener, ok:false branch for an id that is not pending
RejectBranch(s, reason) ==
    sock' = [sock EXCEPT ![s] =
                [RejectConnect(@, ConnectRejectReason(reason)) EXCEPT !.timer = FALSE]]

\* the gateway answers the connect request (a fresh id, never registered) ok:false
GwConnectRejected(s, reason) ==
    /\ micro = <<>>
    /\ s \in Socks
    /\ sock[s].rs = WS_OPEN
    /\ sock[s].creq # NoReq
    /\ RejectBranch(s, reason)
    /\ delivered' = <<>>
    /\ ret' = ""
    /\ UNCHANGED <<ws, connected, connectNonce, pendingRequests, rpcs, handlers,
                   responseBuffer, isResponding, currentSessionId, device, token, sessionKey, tokenSources, waiter, micro>>

\* pendingRequests.get(msg.id): the rpc() call whose entry is stored under the id
Lookup(m, id) == m[id]

\* pending.resolve / pending.reject of the map entry: clearTimeout, then settle
AnswerRpc(r, id, ok, reason) ==
    [SettleRpc(r, IF ok THEN "resolved" ELSE "rejected",
               IF ok THEN "" ELSE OrDefault(reason, RpcErr), "response", id)
     EXCEPT !.timer = FALSE]

\* message listener for a response frame with the id of a request the gateway
\* received on this socket: the ok:false branch of the listener, or
\* handleGatewayMessage
GwResponse(s, id, ok, reason) ==
    /\ micro = <<>>
    /\ s \in Socks
    /\ sock[s].rs = WS_OPEN
    /\ \E c \in Calls : rpcs[c].id = id /\ rpcs[c].sock = s
    /\ IF id \in DOMAIN pendingRequests
       THEN /\ pendingRequests' = MapDelete(pendingRequests, id)
            /\ rpcs' = [rpcs EXCEPT ![Lookup(pendingRequests, id)] =
                           AnswerRpc(@, id, ok, reason)]
            /\ micro' = Resume(Lookup(pendingRequests, id))
            /\ UNCHANGED sock
       ELSE /\ IF ok THEN UNCHANGED sock ELSE RejectBranch(s, reason)
            /\ UNCHANGED <<pendingRequests, rpcs, micro>>
    /\ delivered' = <<>>
    /\ ret' = ""
    /\ UNCHANGED <<ws, connected, connectNonce, handlers, responseBuffer, isResponding,
                   currentSessionId, device, token, sessionKey, tokenSources, waiter>>

\* ---- handleGatewayEvent ------------------------------------------------------
Has(obj, f) == f \in DOMAIN obj

\* (obj.f as string) || '': an absent field and '' are both falsy
Field(obj, f) == IF f \in DOMAIN obj THEN obj[f] ELSE ""

\* obj.f || dflt for a field that holds an object
ObjField(obj, f, dflt) == IF f \in DOMAIN obj THEN obj[f] ELSE dflt

\* randomUUID() used as a call id or a request id of a message
RandomId == "uuid"

ModelOutput(textDelta, fullText) ==
    [type |-> "model-output", textDelta |-> textDelta, fullText |-> fullText]

\* state and emissions after `if (text) { responseBuffer += text; ... emit }`
AppendText(st, text) ==
    IF text = "" THEN st
    ELSE [buf |-> Append(st.buf, text), resp |-> TRUE,
          msgs |-> Append(st.msgs, ModelOutput(text, Append(st.buf, text)))]

\* `if (type === 'done' || type === 'turn.end')`
TurnEnd(st, type) ==
    IF type \in {"done", "turn.end"}
    THEN [buf |-> <<>>, resp |-> FALSE, msgs |-> Append(st.msgs, StatusMsg("idle", <<>>))]
    ELSE st

\* `if (data.type === 'turn.start')`
TurnStart(st, type) ==
    IF type = "turn.start"
    THEN [buf |-> <<>>, resp |-> TRUE, msgs |-> Append(st.msgs, StatusMsg("running", <<>>))]
    ELSE st

ToolCall(data) ==
    [type |-> "tool-call", toolName |-> OrDefault(Field(data, "name"), "unknown"),
     args |-> ObjField(data, "input", EmptyObj),
     callId |-> OrDefault(Field(data, "id"), RandomId)]

ToolResult(data) ==
    [type |-> "tool-result", toolName |-> OrDefault(Field(data, "name"), "unknown"),
     result |-> ObjField(data, "output", "undefined"),
     callId |-> Field(data, "id")]

\* the tool.start, tool.end and error branches of case 'agent'
AgentTyped(st, data) ==
    LET type == Field(data, "type") IN
    IF type = "tool.start" THEN [st EXCEPT !.msgs = Append(@, ToolCall(data))]
    ELSE IF type = "tool.end" THEN [st EXCEPT !.msgs = Append(@, ToolResult(data))]
    ELSE IF type = "error"
    THEN [st EXCEPT !.msgs = Append(@, StatusMsg("error",
                 <<OrDefault(Field(data, "message"), "Unknown error")>>))]
    ELSE st

\* case 'agent'
AgentEvent(st, p) ==
    LET data == ObjField(p, "data", p)
        stream == Field(p, "stream")
        text == IF stream = "text" \/ Field(data, "text") # ""
                THEN Field(data, "text") ELSE ""
    IN AgentTyped(TurnStart(TurnEnd(AppendText(st, text), Field(data, "type")),
                            Field(data, "type")), data)

\* case 'chat'
ChatEvent(st, p) ==
    TurnEnd(AppendText(st, OrDefault(Field(p, "text"), Field(p, "delta"))),
            Field(p, "type"))

\* case 'exec.approval.requested'
ApprovalEvent(st, p) ==
    [st EXCEPT !.msgs = Append(@,
        [type |-> "permission-request", id |-> OrDefault(Field(p, "id"), RandomId),
         reason |-> OrDefault(Field(p, "command"), Field(p, "reason")),
         payload |-> p])]

\* the cases of the switch that break at once
NoisyEvents_NoHeartbeat == {"health", "tick", "presence"}

NoisyEvents == {"health", "tick", "presence", "heartbeat"}

\* { type: 'event', name: event.event, payload: event.payload }; a field whose
\* value is undefined is left out
GenericMsg_NoPayload(event) ==
    [k \in {"type"} \cup (IF Has(event, "event") THEN {"name"} ELSE {}) |->
        IF k = "type" THEN "event" ELSE event.event]

GenericMsg(event) ==
    [k \in {"type"} \cup (IF Has(event, "event") THEN {"name"} ELSE {})
                    \cup (IF Has(event, "payload") THEN {"payload"} ELSE {}) |->
        IF k = "type" THEN "event"
        ELSE IF k = "name" THEN event.event
        ELSE event.payload]

\* handleGatewayEvent(event), run on the streaming state st with st.msgs = <<>>:
\* the state it leaves and the messages it emits, in order
handleGatewayEvent(st, event) ==
    LET p == ObjField(event, "payload", EmptyObj)
        name == Field(event, "event")
    IN IF name = "agent" THEN AgentEvent(st, p)
       ELSE IF name = "chat" THEN ChatEvent(st, p)
       ELSE IF name = "exec.approval.requested" THEN ApprovalEvent(st, p)
       ELSE IF name \in NoisyEvents THEN st
       ELSE [st EXCEPT !.msgs = Append(@, GenericMsg(event))]

\* ---- the message listener on any other frame ----------------------------------

\* JSON.parse throws on text that is not JSON; msg.type throws on null
Throws(raw) == raw.kind \in {"garbage", "null"}

\* try { ... } catch (err) { logger.warn(...) }: how the listener is left
TryCatch_Rethrow(outcome) == outcome

TryCatch(outcome) == "returned"

IsChallenge(msg) == Field(msg, "type") = "event" /\ Field(msg, "event") = "connect.challenge"

\* msg.ok of a response frame; an absent field is falsy
Ok(msg) == Has(msg, "ok") /\ msg.ok

IsHelloOk(msg) ==
    /\ Field(msg, "type") = "res"
    /\ Ok(msg)
    /\ Field(ObjField(msg, "payload", EmptyObj), "type") = "hello-ok"

\* message listener and handleGatewayMessage for a frame that is neither a
\* challenge, nor a hello-ok, nor a response carrying an id: text that does not
\* parse, a response without id, an event, or a frame of unknown type
GwFrame(s, raw) ==
    /\ micro = <<>>
    /\ s \in Socks
    /\ sock[s].rs = WS_OPEN
    /\ ~Throws(raw) => ~IsChallenge(raw.msg) /\ ~IsHelloOk(raw.msg) /\ ~Has(raw.msg, "id")
    /\ LET msg == IF Throws(raw) THEN EmptyObj ELSE raw.msg
           type == Field(msg, "type")
           rejects == ~Throws(raw) /\ type = "res" /\ ~Ok(msg)
           reason == Field(ObjField(msg, "error", EmptyObj), "message")
           st0 == [buf |-> responseBuffer, resp |-> isResponding, msgs |-> <<>>]
           st == IF ~Throws(raw) /\ type = "event" THEN handleGatewayEvent(st0, msg)
                 ELSE st0
           exit == TryCatch(IF Throws(raw) THEN "threw" ELSE "returned")
       IN /\ responseBuffer' = st.buf
          /\ isResponding' = st.resp
          /\ delivered' = Emit(handlers, st.msgs)
          /\ handlers' = AfterEmit(handlers, st.msgs)
          /\ sock' = [x \in Socks |->
                         IF x # s THEN [sock[x] EXCEPT !.rx = NoFrame]
                         ELSE [(IF rejects
                                THEN [RejectConnect(sock[s], ConnectRejectReason(reason))
                                      EXCEPT !.timer = FALSE]
                                ELSE sock[s])
                               EXCEPT !.rx = [raw |-> raw, exit |-> exit]]]
    /\ ret' = ""
    /\ UNCHANGED <<ws, connected, connectNonce, pendingRequests, rpcs,
                   currentSessionId, device, token, sessionKey, tokenSources, waiter, micro>>

\* error listener; the transport fails, its 'close' event follows
SockError(s, text) ==
    /\ micro = <<>>
    /\ s \in Socks
    /\ sock[s].rs \in {WS_CONNECTING, WS_OPEN}
    /\ sock' = [sock EXCEPT ![s] =
                   [RejectConnect(@, OrDefault(text, WebSocketErr))
                    EXCEPT !.timer = FALSE, !.rs = WS_CLOSING]]
    /\ delivered' = <<>>
    /\ ret' = ""
    /\ UNCHANGED <<ws, connected, connectNonce, pendingRequests, rpcs, handlers,
                   responseBuffer, isResponding, currentSessionId, device, token, sessionKey, tokenSources, waiter, micro>>

\* the message the close listener emits
CloseMsg_NoCode(code) == StatusMsg("stopped", <<"Gateway disconnected">>)

CloseMsg(code) == StatusMsg("stopped", <<"Gateway disconnected", code>>)

\* close listener; the gateway's side of the connection is gone with it
SockClose(s, code) ==
    /\ micro = <<>>
    /\ s \in Socks
    /\ sock[s].rs \in {WS_OPEN, WS_CLOSING}
    /\ sock' = [sock EXCEPT ![s].rs = WS_CLOSED, ![s].chal = FALSE, ![s].creq = NoReq]
    /\ connected' = FALSE
    /\ delivered' = Emit(handlers, <<CloseMsg(code)>>)
    /\ handlers' = AfterEmit(handlers, <<CloseMsg(code)>>)
    /\ ret' = ""
    /\ UNCHANGED <<ws, connectNonce, pendingRequests, rpcs, responseBuffer,
                   isResponding, currentSessionId, device, token, sessionKey, tokenSources, waiter, micro>>

\* the timer callback of connect()
OnConnectTimeout_Silent(sk) == sk

OnConnectTimeout(sk) == RejectConnect(sk, ConnectTimeoutErr)

\* the connectTimeoutMs timer of connect()
ConnectTimeout(s) ==
    /\ micro = <<>>
    /\ s \in Socks
    /\ sock[s].timer
    /\ sock' = [sock EXCEPT ![s] = [OnConnectTimeout(@) EXCEPT !.timer = FALSE]]
    /\ delivered' = <<>>
    /\ ret' = ""
    /\ UNCHANGED <<ws, connected, connectNonce, pendingRequests, rpcs, handlers,
                   responseBuffer, isResponding, currentSessionId, device, token, sessionKey, tokenSources, waiter, micro>>

\* ---- dispose, onMessage, offMessage -------------------------------------------
Dispose ==
    /\ micro = <<>>
    /\ connected' = FALSE
    /\ sock' = IF ws # 0 /\ sock[ws].rs \in {WS_CONNECTING, WS_OPEN}
               THEN [sock EXCEPT ![ws].rs = WS_CLOSING]
               ELSE sock
    /\ ws' = 0
    /\ handlers' = <<>>
    /\ pendingRequests' = EmptyMap
    /\ delivered' = <<>>
    /\ ret' = ""
    /\ UNCHANGED <<connectNonce, rpcs, responseBuffer, isResponding, currentSessionId,
                   device, token, sessionKey, tokenSources, waiter, micro>>

OnMessage(h) ==
    /\ micro = <<>>
    /\ handlers' = Append(handlers, h)
    /\ delivered' = <<>>
    /\ ret' = ""
    /\ UNCHANGED <<ws, sock, connected, connectNonce, pendingRequests, rpcs,
                   responseBuffer, isResponding, currentSessionId, device, token, sessionKey, tokenSources, waiter, micro>>

OffMessage(h) ==
    /\ micro = <<>>
    /\ \E i \in 1..Len(handlers) : handlers[i] = h
    /\ handlers' = RemoveFirst(handlers, h)
    /\ delivered' = <<>>
    /\ ret' = ""
    /\ UNCHANGED <<ws, sock, connected, connectNonce, pendingRequests, rpcs,
                   responseBuffer, isResponding, currentSessionId, device, token, sessionKey, tokenSources, waiter, micro>>

\* ---- constructor --------------------------------------------------------------
\* config.token || loadGatewayToken() || process.env.OPENCLAW_GATEWAY_TOKEN || ''
ResolveToken_EnvFirst(explicit, file, env) ==
    OrDefault(explicit, OrDefault(env, OrDefault(file, "")))

ResolveToken(explicit, file, env) ==
    OrDefault(explicit, OrDefault(file, OrDefault(env, "")))

\* the constructor called with config.token = explicit
Construct(explicit, file, env) ==
    /\ tokenSources = [explicit |-> explicit, file |-> file, env |-> env]
    /\ token = ResolveToken(explicit, file, env)

\* ---- waitForResponseComplete() ------------------------------------------------
\* no waitForResponseComplete() call has been made
NoWaiter == [state |-> "idle", elapsed |-> 0, timeout |-> 0]

\* timeoutMs, in units of the 100 ms sleep
Timeouts == 0..MaxPolls

\* the loop condition: `this.isResponding && Date.now() - start < timeoutMs`
KeepWaiting_IgnoresTimeout(elapsed, timeout) == isResponding

KeepWaiting(elapsed, timeout) == isResponding /\ elapsed < timeout

\* waitForResponseComplete(timeoutMs) up to its first await, or to its return
WaitStart(timeout) ==
    /\ micro = <<>>
    /\ waiter.state # "waiting"
    /\ waiter' = [state |-> IF KeepWaiting(0, timeout) THEN "waiting" ELSE "returned",
                  elapsed |-> 0, timeout |-> timeout]
    /\ delivered' = <<>>
    /\ ret' = ""
    /\ UNCHANGED <<ws, sock, connected, connectNonce, pendingRequests, rpcs, handlers,
                   responseBuffer, isResponding, currentSessionId, device, token,
                   sessionKey, tokenSources, micro>>

\* the 100 ms timer fires and the loop condition is evaluated again
WaitPoll ==
    /\ micro = <<>>
    /\ waiter.state = "waiting"
    /\ waiter' = [waiter EXCEPT
                      !.elapsed = @ + 1,
                      !.state = IF KeepWaiting(waiter.elapsed + 1, waiter.timeout)
                                THEN "waiting" ELSE "returned"]
    /\ delivered' = <<>>
    /\ ret' = ""
    /\ UNCHANGED <<ws, sock, connected, connectNonce, pendingRequests, rpcs, handlers,
                   responseBuffer, isResponding, currentSessionId, device, token,
                   sessionKey, tokenSources, micro>>

\* ---- specifications -----------------------------------------------------------
\* the transport of socket s is connecting or open
Live(s) == sock[s].rs \in {WS_CONNECTING, WS_OPEN}

InitBackend ==
    /\ ws = 0
    /\ sock = <<>>
    /\ connected = FALSE
    /\ connectNonce = ""
    /\ pendingRequests = EmptyMap
    /\ rpcs = <<>>
    /\ handlers = <<>>
    /\ waiter = NoWaiter
    /\ responseBuffer = <<>>
    /\ isResponding = FALSE
    /\ currentSessionId = 0
    /\ micro = <<>>
    /\ delivered = <<>>
    /\ ret = ""

\* Spec: overlapping and repeated connection attempts
Init ==
    /\ InitBackend
    /\ device = "dev1"
    /\ Construct("tok", "", "")
    /\ sessionKey = "main"

Next ==
    \/ StartSession("") /\ Len(sock') <= MaxSock
    \/ StartSessionCont
    \/ \E s \in 1..MaxSock : SockOpen(s)
    \/ \E s \in 1..MaxSock : SockClosing(s)
    \/ \E s \in 1..MaxSock : GwChallenge(s, "n1")
    \/ \E s \in 1..MaxSock : GwHelloOk(s)
    \/ \E s \in 1..MaxSock : GwConnectRejected(s, "denied")
    \/ \E s \in 1..MaxSock : SockError(s, "ECONNRESET")
    \/ \E s \in 1..MaxSock : SockClose(s, 1006)
    \/ \E s \in 1..MaxSock : ConnectTimeout(s)
    \/ Dispose

Spec == Init /\ [][Next]_vars

\* SpecRpc: correlated requests over one connection at a time
NextRpc ==
    \/ StartSession("") /\ Len(sock') <= OneSock
    \/ StartSessionCont
    \/ SendPrompt("hi") /\ Len(rpcs') <= MaxRpc
    \/ \E c \in 1..MaxRpc : RpcTimeout(c)
    \/ \E s \in 1..OneSock : SockOpen(s)
    \/ \E s \in 1..OneSock : SockClosing(s)
    \/ \E s \in 1..OneSock : GwChallenge(s, "n1")
    \/ \E s \in 1..OneSock : GwHelloOk(s)
    \/ \E s \in 1..OneSock, id \in 1..MaxRpc, ok \in BOOLEAN, reason \in Reasons :
           GwResponse(s, id, ok, reason)
    \/ \E s \in 1..OneSock : SockClose(s, 1006)
    \/ Dispose

SpecRpc == Init /\ [][NextRpc]_vars

\* SpecClose: closure of the connection under registered handlers
NextClose ==
    \/ StartSession("") /\ Len(sock') <= OneSock
    \/ StartSessionCont
    \/ SendPrompt("hi") /\ Len(rpcs') <= FewRpc
    \/ \E s \in 1..OneSock : SockOpen(s)
    \/ \E s \in 1..OneSock : SockClosing(s)
    \/ \E s \in 1..OneSock : GwChallenge(s, "n1")
    \/ \E s \in 1..OneSock : GwHelloOk(s)
    \/ \E s \in 1..OneSock, code \in CloseCodes : SockClose(s, code)
    \/ \E s \in 1..OneSock : ConnectTimeout(s)
    \/ Dispose
    \/ \E h \in Handlers : OnMessage(h) /\ Len(handlers') <= MaxHandlers
    \/ \E h \in Handlers : OffMessage(h)

SpecClose == Init /\ [][NextClose]_vars

\* SpecHandshake: one connection attempt at a time, every handshake input
InitHandshake ==
    /\ InitBackend
    /\ device \in Devices
    /\ \E explicit \in Tokens : Construct(explicit, "", "")
    /\ sessionKey = "main"

NextHandshake ==
    \/ StartSession("") /\ Len(sock') <= OneSock
    \/ StartSessionCont
    \/ \E s \in 1..OneSock : SockOpen(s)
    \/ \E s \in 1..OneSock : SockClosing(s)
    \/ \E s \in 1..OneSock, nonce \in Nonces : GwChallenge(s, nonce)
    \/ \E s \in 1..OneSock : GwHelloOk(s)
    \/ \E s \in 1..OneSock, reason \in Reasons : GwConnectRejected(s, reason)
    \/ \E s \in 1..OneSock, text \in ErrorTexts : SockError(s, text)
    \/ \E s \in 1..OneSock, code \in CloseCodes : SockClose(s, code)
    \/ \E s \in 1..OneSock : ConnectTimeout(s)
    \/ Dispose

\* timers fire and microtasks run
SpecHandshake ==
    /\ InitHandshake
    /\ [][NextHandshake]_vars
    /\ \A s \in 1..OneSock : WF_vars(ConnectTimeout(s))
    /\ WF_vars(StartSessionCont)

\* SpecEvents: translation of the event stream, one connection after the other
NextEvents ==
    \/ StartSession("") /\ Len(sock') <= OneSock /\ \A s \in Socks : ~Live(s)
    \/ StartSessionCont
    \/ \E s \in 1..OneSock : SockOpen(s)
    \/ \E s \in 1..OneSock : GwChallenge(s, "n1")
    \/ \E s \in 1..OneSock : GwHelloOk(s)
    \/ \E s \in 1..OneSock,
          f \in StreamFrames \cup TypedFrames \cup NoisyFrames \cup UnknownFrames :
           GwFrame(s, Json(f)) /\ Len(responseBuffer') <= MaxDeltas
    \/ \E s \in 1..OneSock : SockClose(s, 1006)
    \/ OnMessage("h1") /\ Len(handlers') <= MaxHandlers

SpecEvents == Init /\ [][NextEvents]_vars

\* SpecFrames: malformed frames in every phase of a connection
NextFrames ==
    \/ StartSession("") /\ Len(sock') <= OneSock /\ \A s \in Socks : ~Live(s)
    \/ StartSessionCont
    \/ SendPrompt("hi") /\ Len(rpcs') <= FewRpc
    \/ \E s \in 1..OneSock : SockOpen(s)
    \/ \E s \in 1..OneSock : GwChallenge(s, "n1")
    \/ \E s \in 1..OneSock : GwHelloOk(s)
    \/ \E s \in 1..OneSock :
           GwFrame(s, Json(AssistantText("Hi", "Hi"))) /\ Len(responseBuffer') <= MaxDeltas
    \/ \E s \in 1..OneSock,
          raw \in DiscardedFrames \cup {NamelessEvent, BareApproval, BareFailure} :
           GwFrame(s, raw)
    \/ \E s \in 1..OneSock : SockClose(s, 1006)
    \/ OnMessage("h1") /\ Len(handlers') <= MaxHandlers

SpecFrames == Init /\ [][NextFrames]_vars

\* SpecSession: the session facade over one connection at a time
NextSession ==
    \/ \E prompt \in {"", "hi"} :
           /\ StartSession(prompt)
           /\ Len(sock') <= OneSock
           /\ AlreadyConnected \/ \A s \in Socks : ~Live(s)
           /\ prompt # "" => Len(rpcs) + Awaiting < FewRpc
    \/ StartSessionCont
    \/ SendPrompt("bye") /\ Len(rpcs') <= FewRpc
    \/ \E s \in 1..OneSock : SockOpen(s)
    \/ \E s \in 1..OneSock : GwChallenge(s, "n1")
    \/ \E s \in 1..OneSock : GwHelloOk(s)
    \/ \E s \in 1..OneSock :
           GwFrame(s, Json(AssistantText("Hi", "Hi"))) /\ Len(responseBuffer') <= MaxDeltas
    \/ \E s \in 1..OneSock : SockClose(s, 1006)
    \/ \E s \in 1..OneSock : ConnectTimeout(s)
    \/ Dispose
    \/ OnMessage("h1") /\ Len(handlers') <= MaxHandlers

SpecSession == Init /\ [][NextSession]_vars

\* SpecPrompts: several prompts sent over one connection, every session key
InitPrompts ==
    /\ InitBackend
    /\ device = "dev1"
    /\ Construct("tok", "", "")
    /\ sessionKey \in {OrDefault(k, "main") : k \in SessionKeys}

NextPrompts ==
    \/ \E prompt \in {"", "hi"} :
           /\ StartSession(prompt)
           /\ Len(sock') <= OneSock
           /\ AlreadyConnected \/ \A s \in Socks : ~Live(s)
           /\ prompt # "" => Len(rpcs) + Awaiting < MaxRpc
    \/ StartSessionCont
    \/ \E prompt \in Prompts : SendPrompt(prompt) /\ Len(rpcs') <= MaxRpc
    \/ \E s \in 1..OneSock : SockOpen(s)
    \/ \E s \in 1..OneSock : SockClosing(s)
    \/ \E s \in 1..OneSock : GwChallenge(s, "n1")
    \/ \E s \in 1..OneSock : GwHelloOk(s)
    \/ \E s \in 1..OneSock : SockClose(s, 1006)

SpecPrompts == InitPrompts /\ [][NextPrompts]_vars

\* SpecControl: cancel() and respondToPermission() in every connection state,
\* with every outcome of their RPC
NextControl ==
    \/ StartSession("") /\ Len(sock') <= OneSock
    \/ StartSessionCont
    \/ Cancel /\ Len(rpcs') <= FewRpc
    \/ CancelCont
    \/ \E id \in PermissionIds, approved \in BOOLEAN :
           RespondToPermission(id, approved) /\ Len(rpcs') <= FewRpc
    \/ PermissionCont
    \/ \E c \in 1..FewRpc : RpcTimeout(c)
    \/ \E s \in 1..OneSock : SockOpen(s)
    \/ \E s \in 1..OneSock : SockClosing(s)
    \/ \E s \in 1..OneSock : GwChallenge(s, "n1")
    \/ \E s \in 1..OneSock : GwHelloOk(s)
    \/ \E s \in 1..OneSock, id \in 1..FewRpc, ok \in BOOLEAN :
           GwResponse(s, id, ok, "denied")
    \/ \E s \in 1..OneSock : SockClose(s, 1006)
    \/ OnMessage("h1") /\ Len(handlers') <= MaxHandlers

SpecControl == Init /\ [][NextControl]_vars

\* SpecDeliver: delivery to several handlers, some of which throw or unregister
\* themselves from inside their callback
NextDeliver ==
    \/ StartSession("") /\ Len(sock') <= OneSock
    \/ StartSessionCont
    \/ \E s \in 1..OneSock : SockOpen(s)
    \/ \E s \in 1..OneSock : GwChallenge(s, "n1")
    \/ \E s \in 1..OneSock : GwHelloOk(s)
    \/ \E s \in 1..OneSock, f \in UnknownFrames : GwFrame(s, Json(f))
    \/ \E s \in 1..OneSock : SockClose(s, 1006)
    \/ \E h \in Callbacks : OnMessage(h) /\ Len(handlers') <= MaxListeners
    \/ \E h \in Callbacks : OffMessage(h)

SpecDeliver == Init /\ [][NextDeliver]_vars

\* SpecToken: every combination of token sources, then the handshake that
\* sends the resolved token
InitToken ==
    /\ InitBackend
    /\ device \in Devices
    /\ \E explicit \in Tokens, file \in FileTokens, env \in EnvTokens :
           Construct(explicit, file, env)
    /\ sessionKey = "main"

NextToken ==
    \/ StartSession("") /\ Len(sock') <= OneSock
    \/ StartSessionCont
    \/ \E s \in 1..OneSock : SockOpen(s)
    \/ \E s \in 1..OneSock : GwChallenge(s, "n1")
    \/ \E s \in 1..OneSock : GwHelloOk(s)
    \/ \E s \in 1..OneSock : SockClose(s, 1006)
    \/ \E s \in 1..OneSock : ConnectTimeout(s)

SpecToken == InitToken /\ [][NextToken]_vars

\* SpecWait: waitForResponseComplete() around turns that end, are cancelled,
\* fail or never end
NextWait ==
    \/ StartSession("") /\ Len(sock') <= OneSock /\ \A s \in Socks : ~Live(s)
    \/ StartSessionCont
    \/ \E s \in 1..OneSock : SockOpen(s)
    \/ \E s \in 1..OneSock : GwChallenge(s, "n1")
    \/ \E s \in 1..OneSock : GwHelloOk(s)
    \/ SendPrompt("hi") /\ Len(rpcs') <= FewRpc
    \/ \E c \in 1..FewRpc : RpcTimeout(c)
    \/ \E s \in 1..OneSock :
           GwFrame(s, Json([type |-> "event", event |-> "agent",
                            payload |-> [data |-> [type |-> "done"]]]))
    \/ \E s \in 1..OneSock : SockClose(s, 1006)
    \/ \E timeout \in Timeouts : WaitStart(timeout)
    \/ WaitPoll

\* timers fire and microtasks run
SpecWait ==
    /\ Init
    /\ [][NextWait]_vars
    /\ WF_vars(WaitPoll)
    /\ WF_vars(StartSessionCont)

\* ---- claims -------------------------------------------------------------------

\* C1 as stated: every settled rpc() was settled by the response carrying its id
\* or by its own deadline, and its resolve and reject were invoked once in all.
C1_ResponseOrDeadlineOnly ==
    \A c \in Calls :
        /\ rpcs[c].p # "pending" => rpcs[c].by \in {"response", "deadline"}
        /\ rpcs[c].calls <= 1

\* C1 (amended): every rpc() call is settled at most once and will be settled: it
\* is settled by the response carrying its own id, by its own deadline, or by the
\* failure of its own send when the transport is not open; while it is pending its
\* deadline is armed; resolve and reject are invoked once in all, except that
\* after a failed send the deadline, still armed, invokes reject once more.
C1_SettledOnce ==
    \A c \in Calls :
        LET r == rpcs[c] IN
        /\ r.p = "pending" => r.timer /\ r.calls = 0
        /\ r.p # "pending" => r.by \in {"response", "deadline", "send"} /\ r.calls >= 1
        /\ r.by = "response" => r.rid = r.id /\ r.calls = 1 /\ ~r.timer
        /\ r.by = "deadline" => r.calls = 1 /\ ~r.timer
        /\ r.by = "send" => r.sock = 0 /\ r.calls <= 2 /\ (r.calls = 2 <=> ~r.timer)

\* two requests in flight, the later one answered first
C1_Witness ==
    /\ Len(rpcs) >= 2
    /\ rpcs[1].p = "pending"
    /\ rpcs[2].p = "resolved"
    /\ rpcs[2].by = "response"

\* C2: dispose() rejects every rpc() call that is pending when it runs.
C2_DisposeRejectsPending ==
    [][Dispose => \A c \in Calls : rpcs[c].p = "pending" => rpcs'[c].p = "rejected"]_vars

\* C3: the close listener, run while connected, rejects every pending rpc() call.
C3_CloseRejectsPending ==
    [][\A s \in Socks, code \in CloseCodes :
          (SockClose(s, code) /\ connected) =>
              \A c \in Calls : rpcs[c].p = "pending" => rpcs'[c].p = "rejected"]_vars

C5_OneLiveTransport == Cardinality({s \in Socks : Live(s)}) <= 1

\* C6: connect() called while connected with an open transport returns at once and
\* changes nothing; called in any other state it opens a new transport, makes it
\* the current one, and arms the handshake timer.
C6_ConnectIdempotent ==
    [][StartSession("") =>
          IF connected /\ ws # 0 /\ sock[ws].rs = WS_OPEN
          THEN /\ micro' = Append(micro, [prompt |-> "", via |-> 0])
               /\ delivered' = <<>>
               /\ UNCHANGED <<ws, sock, connected, connectNonce, pendingRequests, rpcs,
                              handlers, responseBuffer, isResponding>>
          ELSE /\ Len(sock') = Len(sock) + 1
               /\ ws' = Len(sock')
               /\ sock'[ws'].rs = WS_CONNECTING
               /\ sock'[ws'].p = "pending"
               /\ sock'[ws'].timer
               /\ UNCHANGED <<connected, pendingRequests, rpcs, responseBuffer,
                              isResponding>>]_vars

\* connect() has returned at once while a request was pending
C6_Witness ==
    /\ micro # <<>>
    /\ Head(micro).via = 0
    /\ DOMAIN pendingRequests # {}

\* C7: the connected flag is set only by a hello-ok on a socket that received a
\* challenge and on which the connect request answering that challenge was sent.
C7_OrderedHandshake ==
    [][(~connected /\ connected') =>
          \E s \in Socks : GwHelloOk(s) /\ sock[s].chal /\ sock[s].creq.via = s]_vars

\* C8: while not connected, an ok:false answer to the connect request or a
\* transport error rejects the pending connect() with the reason text given (the
\* code's default text when none is given), leaves the backend not connected and
\* opens no transport; transports are opened by startSession only.
C8_ConnectFailure ==
    [][/\ \A s \in Socks, reason \in Reasons :
              (GwConnectRejected(s, reason) /\ ~connected /\ sock[s].p = "pending") =>
                  /\ sock'[s].p = "rejected"
                  /\ sock'[s].reason = (IF reason = "" THEN ConnectRejectedErr ELSE reason)
                  /\ ~connected'
                  /\ Len(sock') = Len(sock)
       /\ \A s \in Socks, text \in ErrorTexts :
              (SockError(s, text) /\ ~connected /\ sock[s].p = "pending") =>
                  /\ sock'[s].p = "rejected"
                  /\ sock'[s].reason = (IF text = "" THEN WebSocketErr ELSE text)
                  /\ ~connected'
                  /\ Len(sock') = Len(sock)
       /\ Len(sock') # Len(sock) => StartSession("")]_vars

\* a connect() rejected with the gateway's reason
C8_Witness ==
    \E s \in Socks : sock[s].p = "rejected" /\ sock[s].reason = "denied"

\* C9: a pending connect() always has its timer armed, also after its transport
\* closed; the timer firing on a pending connect() rejects it with the connect
\* timeout error; and every connect() is settled in the end.
C9_ConnectSettles ==
    /\ [](\A s \in Socks : sock[s].p = "pending" => sock[s].timer)
    /\ [][\A s \in Socks :
             (ConnectTimeout(s) /\ sock[s].p = "pending") =>
                 sock'[s].p = "rejected" /\ sock'[s].reason = ConnectTimeoutErr]_vars
    /\ \A s \in 1..OneSock :
           (s \in Socks /\ sock[s].p = "pending")
               ~> (s \in Socks /\ sock[s].p # "pending")

\* a connect() whose transport closed before any challenge, rejected by its timer
C9_Witness ==
    \E s \in Socks :
        /\ sock[s].rs = WS_CLOSED
        /\ sock[s].p = "rejected"
        /\ sock[s].reason = ConnectTimeoutErr

\* C10: with a device identity, the connect request sent in answer to a challenge
\* carrying a nonce has a device block with that nonce, and the signed payload
\* ends with it, whatever nonce an earlier challenge carried.
C10_NonceBound ==
    [][\A s \in Socks, n \in Nonces :
          (GwChallenge(s, n) /\ device # "none" /\ n # "" /\ CanSend) =>
              LET q == sock'[ws].creq IN
              /\ q.dev
              /\ q.nonce = n
              /\ q.payload[Len(q.payload)] = n
              /\ q.via = s]_vars

\* a signed connect request carrying the nonce n2
C10_Witness ==
    \E s \in Socks :
        /\ sock[s].creq.dev
        /\ sock[s].creq.nonce = "n2"
        /\ sock[s].creq.payload[Len(sock[s].creq.payload)] = "n2"

\* C11: every text delta event (agent event with stream 'assistant' and
\* data.delta, chat event with state 'delta') emits exactly one model-output
\* message whose textDelta is the delta and whose fullText is the text
\* accumulated so far followed by the delta, and appends the delta to the
\* accumulator.
C11_DeltasAccumulate ==
    [][\A s \in Socks, d \in Deltas :
          (GwFrame(s, Json(AssistantDelta(d))) \/ GwFrame(s, Json(ChatDelta(d)))) =>
              /\ delivered' = Emit(handlers, <<ModelOutput(d, Append(responseBuffer, d))>>)
              /\ responseBuffer' = Append(responseBuffer, d)]_vars

\* C12: sendPrompt, once past its connected check, leaves the accumulator empty;
\* every terminal event (lifecycle phase 'end' or 'error', chat state 'final' or
\* 'error') leaves the accumulator empty and the turn-active flag false.
C12_ResetAtTurnBoundary ==
    [][/\ \A prompt \in Prompts :
              (SendPrompt(prompt) /\ connected) => responseBuffer' = <<>>
       /\ \A s \in Socks :
              \A f \in {LifecycleEnd, LifecycleError("boom"), ChatFinal, ChatError("boom")} :
                  GwFrame(s, Json(f)) => responseBuffer' = <<>> /\ ~isResponding']_vars

\* C13: lifecycle phase 'start' emits exactly one status 'running'; lifecycle
\* phase 'end' and chat state 'final' each emit exactly one status 'idle'.
C13_LifecycleStatus ==
    [][\A s \in Socks :
          /\ GwFrame(s, Json(LifecycleStart)) =>
                 delivered' = Emit(handlers, <<StatusMsg("running", <<>>)>>)
          /\ GwFrame(s, Json(LifecycleEnd)) =>
                 delivered' = Emit(handlers, <<StatusMsg("idle", <<>>)>>)
          /\ GwFrame(s, Json(ChatFinal)) =>
                 delivered' = Emit(handlers, <<StatusMsg("idle", <<>>)>>)]_vars

\* C14: a chat event with state 'error' and errorMessage m, and a lifecycle event
\* with phase 'error' and error detail m, each emit exactly one status 'error'
\* message with detail m.
C14_ErrorStatus ==
    [][\A s \in Socks :
          /\ GwFrame(s, Json(ChatError("boom"))) =>
                 delivered' = Emit(handlers, <<StatusMsg("error", <<"boom">>)>>)
          /\ GwFrame(s, Json(LifecycleError("boom"))) =>
                 delivered' = Emit(handlers, <<StatusMsg("error", <<"boom">>)>>)]_vars

\* C15: an event named health, tick, presence or heartbeat, whatever its
\* payload, is delivered to no handler and leaves the accumulator, the
\* turn-active flag, the connected flag, the connect() promises and the
\* pending-request map unchanged.
C15_NoisyEventsDropped ==
    [][\A s \in Socks, f \in NoisyFrames :
          GwFrame(s, Json(f)) =>
              /\ delivered' = <<>>
              /\ \A x \in Socks : sock'[x].p = sock[x].p /\ sock'[x].rs = sock[x].rs
              /\ UNCHANGED <<responseBuffer, isResponding, connected, pendingRequests,
                             rpcs, ws>>]_vars

\* a heartbeat with a busy payload was received in mid-turn with a handler
\* registered
C15_Witness ==
    \E s \in Socks :
        /\ sock[s].rx.raw = Json([type |-> "event", event |-> "heartbeat",
                                  payload |-> BusyPayload])
        /\ responseBuffer # <<>>
        /\ isResponding
        /\ handlers # <<>>

\* C16: an event whose name is neither recognised nor noisy is delivered to each
\* handler as exactly one generic-event message with the name and the payload of
\* the event, and changes neither the streaming state nor the connection state.
C16_UnknownEventForwarded ==
    [][\A s \in Socks, f \in UnknownFrames :
          GwFrame(s, Json(f)) =>
              /\ delivered' =
                     [i \in 1..Len(handlers) |->
                         [h |-> handlers[i],
                          msg |-> IF "payload" \in DOMAIN f
                                  THEN [type |-> "event", name |-> f.event,
                                        payload |-> f.payload]
                                  ELSE [type |-> "event", name |-> f.event]]]
              /\ \A x \in Socks : sock'[x].p = sock[x].p /\ sock'[x].rs = sock[x].rs
              /\ UNCHANGED <<responseBuffer, isResponding, connected, pendingRequests,
                             rpcs, ws>>]_vars

\* an unknown event with a payload was forwarded to a handler in mid-turn
C16_Witness ==
    \E s \in Socks :
        /\ sock[s].rx.raw.kind = "json"
        /\ sock[s].rx.raw.msg \in UnknownFrames
        /\ "payload" \in DOMAIN sock[s].rx.raw.msg
        /\ Len(delivered) = 1
        /\ delivered[1].msg.type = "event"
        /\ delivered[1].msg.payload = BusyPayload
        /\ responseBuffer # <<>>

\* C17: the message listener is always left by a normal return, never by an
\* exception; a frame that does not parse, has an unknown or no type, or is a
\* response or a streaming event without its fields is discarded: nothing is
\* delivered and the connection, the pending requests and the streaming state
\* stay as they are; an event without name, an approval request without payload
\* and a failure response without id are translated with default values.
C17_ListenerNeverThrows ==
    /\ [](\A s \in Socks : sock[s].rx.exit = "returned")
    /\ [][\A s \in Socks :
             /\ \A raw \in DiscardedFrames :
                    GwFrame(s, raw) =>
                        /\ delivered' = <<>>
                        /\ \A x \in Socks :
                               /\ sock'[x].p = sock[x].p
                               /\ sock'[x].rs = sock[x].rs
                               /\ sock'[x].timer = sock[x].timer
                        /\ UNCHANGED <<connected, pendingRequests, rpcs, responseBuffer,
                                       isResponding, ws, connectNonce>>
             /\ GwFrame(s, NamelessEvent) =>
                    delivered' = [i \in 1..Len(handlers) |->
                                     [h |-> handlers[i], msg |-> [type |-> "event"]]]
             /\ GwFrame(s, BareApproval) =>
                    delivered' = [i \in 1..Len(handlers) |->
                                     [h |-> handlers[i],
                                      msg |-> [type |-> "permission-request",
                                               id |-> "uuid", reason |-> "",
                                               payload |-> EmptyObj]]]
             /\ (GwFrame(s, BareFailure) /\ sock[s].p = "pending") =>
                    /\ sock'[s].p = "rejected"
                    /\ sock'[s].reason = ConnectRejectedErr
                    /\ delivered' = <<>>]_vars

\* text that is not JSON was received in mid-turn, with a request pending and a
\* handler registered
C17_Witness ==
    \E s \in Socks :
        /\ sock[s].rx.raw = Garbage
        /\ DOMAIN pendingRequests # {}
        /\ responseBuffer # <<>>
        /\ handlers # <<>>

C20_FreshIdempotencyKey ==
    /\ [](\A c1, c2 \in Calls :
              (c1 # c2 /\ rpcs[c1].method = "chat.send" /\ rpcs[c2].method = "chat.send")
                  => rpcs[c1].params.idempotencyKey # rpcs[c2].params.idempotencyKey)
    /\ [](\A c \in Calls :
              rpcs[c].method = "chat.send" => rpcs[c].params.sessionKey = sessionKey)
    /\ [][\A prompt \in Prompts :
             (SendPrompt(prompt) /\ connected) =>
                 /\ Len(rpcs') = Len(rpcs) + 1
                 /\ rpcs'[Len(rpcs')].method = "chat.send"
                 /\ rpcs'[Len(rpcs')].params.message = prompt]_vars

\* the same prompt sent twice under a configured session key, both requests on
\* the wire
C20_Witness ==
    /\ Len(rpcs) >= 2
    /\ rpcs[1].params.message = rpcs[2].params.message
    /\ rpcs[1].p = "pending"
    /\ rpcs[2].p = "pending"
    /\ sessionKey = "work"

\* C21: every cancel() call ends by emitting status 'idle' to the registered
\* handlers: the call either emits it before returning, or has issued the
\* chat.abort RPC whose settlement runs the continuation that emits it.
C21_CancelEmitsIdle ==
    [][Cancel /\ handlers # <<>> =>
          \/ rpcs' # rpcs
          \/ delivered' = Emit(handlers, <<StatusMsg("idle", <<>>)>>)]_vars

\* C22: every respondToPermission(id, approved) call ends by emitting a
\* permission-response with that id and approved value: the call either emits
\* it before returning, or has issued the exec.approval.resolve RPC whose
\* settlement runs the continuation that emits it.
C22_PermissionResponseEmitted ==
    [][\A id \in PermissionIds, approved \in BOOLEAN :
          RespondToPermission(id, approved) /\ handlers # <<>> =>
              \/ rpcs' # rpcs
              \/ delivered' = Emit(handlers, <<PermissionResponse(id, approved)>>)]_vars

\* C23: a message is delivered to every handler registered at that moment, in
\* registration order, whatever the handlers do (return, throw): the close
\* listener's status 'stopped' reaches handlers[1], handlers[2], ... in turn.
C23_DeliveredToAllInOrder ==
    [][\A s \in 1..OneSock :
          SockClose(s, 1006) =>
              delivered' = [i \in 1..Len(handlers) |->
                               [h |-> handlers[i], msg |-> CloseMsg(1006)]]]_vars

\* C28: every handler registered when a message starts being delivered receives
\* it exactly once per registration, also when a handler unregisters itself
\* from inside its callback: for the message of a forwarded gateway event, each
\* entry of the handlers array is invoked as often as it is registered.
C28_NoHandlerSkipped ==
    [][\A s \in 1..OneSock, f \in UnknownFrames :
          GwFrame(s, Json(f)) =>
              \A i \in 1..Len(handlers) :
                  Cardinality({j \in 1..Len(delivered') : delivered'[j].h = handlers[i]})
                      = Cardinality({k \in 1..Len(handlers) : handlers[k] = handlers[i]})]_vars

\* C24: the token the backend holds, and sends as auth.token of every connect
\* request, is the explicit one if non-empty, else the config-file one if
\* non-empty, else the environment one; it is absent from the request only
\* when all three are empty.
C24_TokenPrecedence ==
    LET src == tokenSources
        first == IF src.explicit # "" THEN src.explicit
                 ELSE IF src.file # "" THEN src.file
                 ELSE src.env
    IN /\ token = first
       /\ (token = "") <=> (src.explicit = "" /\ src.file = "" /\ src.env = "")
       /\ \A s \in Socks :
              sock[s].creq # NoReq =>
                  sock[s].creq.auth = (IF first = "" THEN "-" ELSE first)

\* a connect request carrying the config-file token while the environment
\* variable holds another one
C24_Witness ==
    /\ tokenSources = [explicit |-> "", file |-> "ftok", env |-> "etok"]
    /\ \E s \in Socks : sock[s].creq # NoReq /\ sock[s].creq.auth = "ftok"

\* C25: waitForResponseComplete(timeout) always returns; it goes on waiting only
\* while the turn-active flag is set and the timeout has not elapsed, so it
\* returns at the first check where the flag is false or the timeout has
\* elapsed; and none of its steps sends a frame, emits a message or changes the
\* turn-active flag, the accumulator or the connection state.
C25_WaitTerminatesReadOnly ==
    /\ (waiter.state = "waiting") ~> (waiter.state = "returned")
    /\ [][waiter' # waiter =>
              /\ waiter'.state = "waiting" =>
                     isResponding /\ waiter'.elapsed < waiter'.timeout
              /\ waiter'.state = "returned" =>
                     ~isResponding \/ waiter'.elapsed >= waiter'.timeout
              /\ delivered' = <<>>
              /\ UNCHANGED <<isResponding, responseBuffer, connected, ws, sock, rpcs,
                             pendingRequests, handlers, micro>>]_vars

\* a wait that returned on its timeout while the turn was still active
C25_Witness ==
    /\ waiter.state = "returned"
    /\ waiter.timeout > 0
    /\ waiter.elapsed = waiter.timeout
    /\ isResponding

\* C26: notifications from a transport that is not the active connection
\* attempt change nothing: a hello-ok on a socket whose connect() was already
\* rejected by its timeout, or that dispose() has dropped, leaves the connected flag as it
\* was, and the close of a socket that a later connect() has replaced as
\* this.ws leaves the flag as it was and emits nothing.
C26_StaleNotificationsIgnored ==
    [][\A s \in 1..MaxSock :
          /\ GwHelloOk(s) /\ (sock[s].reason = ConnectTimeoutErr \/ ws = 0) =>
                 connected' = connected
          /\ SockClose(s, 1006) /\ ws # 0 /\ s # ws =>
                 connected' = connected /\ delivered' = <<>>]_vars

\* C27: in every state the keys of the pending-RPC map are exactly the ids of
\* the rpc() calls whose promise is still pending.
C27_MapIsSuspendedCallers ==
    DOMAIN pendingRequests = {rpcs[c].id : c \in {x \in Calls : rpcs[x].p = "pending"}}

\* C29: the turn-active flag is false once the turn can no longer complete:
\* after the chat.send of the latest prompt is rejected by the gateway or by
\* its deadline, and after the socket closes.
C29_FlagClearedOnFailure ==
    [][/\ \A c \in 1..MaxRpc :
              RpcTimeout(c) /\ c = Len(rpcs) /\ rpcs[c].p = "pending"
                  /\ rpcs[c].method = "chat.send" => ~isResponding'
       /\ \A s \in 1..OneSock, id \in 1..MaxRpc :
              GwResponse(s, id, FALSE, "denied") /\ id = Len(rpcs)
                  /\ rpcs[id].p = "pending" /\ rpcs[id].method = "chat.send"
                  => ~isResponding'
       /\ \A s \in 1..OneSock : SockClose(s, 1006) => ~isResponding']_vars
====
